---- MODULE Spec2Model ----
(***************************************************************************)
(* Model of the IMAP folder gateway of fetchmail_attach_from_folder        *)
(* (FetchmailServer.fetch_mail, FetchmailServerFolder.fetch_mail,          *)
(* retrieve_imap_folder, apply_matching, update_msg, run_server_action,    *)
(* attach_mail) and of the date cursor of                                  *)
(* fetchmail_attach_from_folder_bydate (get_msgids).                       *)
(*                                                                         *)
(* The IMAP server, the database and the message parser are the            *)
(* environment: a mailbox is a sequence of messages with their flags, the  *)
(* database is the two tables the gateway writes (mail.message and         *)
(* ir.attachment), and an exception raised by the environment is a         *)
(* nondeterministic choice of the place where it is raised.                *)
(***************************************************************************)
EXTENDS Integers, Sequences, FiniteSets, TLC

\* ---------------------------------------------------------------- bounds
\* messages per mailbox
MaxMsgs == 2
\* invocations of the gateway driver in one behaviour
MaxRuns == 2
\* exceptions the environment raises in one behaviour
MaxFaults == 1

Servers == {1, 2}
Folders == {1, 2}
\* values of the Message-Id header
Mids == {1, 2}
\* ids of the records of a target model
Records == {1, 2}
Models == {"res.partner", "sale.order"}

\* ------------------------------------------------------------- sequences
Range(s) == {s[i] : i \in DOMAIN s}

\* ----------------------------------------------------------- IMAP server
\* session.search(None, "UNSEEN UNDELETED"): the ids, in mailbox order, of
\* the messages that carry neither \Seen nor \Deleted
RECURSIVE SearchFrom(_, _)
SearchFrom(box, i) ==
    IF i > Len(box) THEN <<>>
    ELSE IF ~box[i].seen /\ ~box[i].deleted
         THEN <<i>> \o SearchFrom(box, i + 1)
         ELSE SearchFrom(box, i + 1)

SearchUnseenUndeleted(box) == SearchFrom(box, 1)

\* session.store(id, sign, flag) on the selected mailbox
Store(box, uid, sign, flag) ==
    [box EXCEPT ![uid] =
        IF flag = "\\DELETED" THEN [@ EXCEPT !.deleted = (sign = "+FLAGS")]
        ELSE IF flag = "\\FLAGGED" THEN [@ EXCEPT !.flagged = (sign = "+FLAGS")]
        ELSE @]

\* session.fetch(id, "(RFC822)"): the server sets \Seen on the message
FetchRFC822(box, uid) == [box EXCEPT ![uid].seen = TRUE]

\* --------------------------------------------------------------- database
\* the tables the gateway writes: mail.message and ir.attachment
EmptyDb == [mail_message |-> <<>>, ir_attachment |-> <<>>]

\* a trace entry of one apply_matching call
Ev(ev, id, arg) == [ev |-> ev, id |-> id, arg |-> arg]

\* ----------------------------------------------------- match algorithm
\* match_algorithm.search_matches(folder, mail_message): the records of the
\* folder's model the algorithm finds for the message. The lookup reads the
\* business data only; its result is carried by the message.
search_matches(fc, msg) == msg.matches

\* matched without the test on the number of candidates
MatchedNoPolicy(matches, match_first) == Len(matches) > 0

\* matched = matches and (len(matches) == 1 or self.match_first)
Matched(matches, match_first) ==
    Len(matches) > 0 /\ (Len(matches) = 1 \/ match_first)

\* the last candidate instead of the first
WinnerLast(matches) == matches[Len(matches)]

\* the record apply_matching hands to handle_match: matches[0]
Winner(matches) == matches[1]

\* a dedup check that finds nothing
AlreadyHandledNever(db, message_id) == FALSE

\* a dedup check whose search has no domain
AlreadyHandledAnyRecord(db, message_id) == db.mail_message # <<>>

\* the dedup check: mail.message.search([("message_id", "=", message_id)])
AlreadyHandled(db, message_id) ==
    \E i \in DOMAIN db.mail_message :
        db.mail_message[i].message_id = message_id

\* ------------------------------------------------------------ update_msg
StoreCmd(sign, flag) == [sign |-> sign, flag |-> flag]

\* update_msg clearing the flag of a match before it looks at delete_matching
update_msg_flag_first(fc, matched, flagged) ==
    IF matched
    THEN IF fc.flag_nonmatching THEN <<StoreCmd("-FLAGS", "\\FLAGGED")>>
         ELSE IF fc.delete_matching THEN <<StoreCmd("+FLAGS", "\\DELETED")>>
         ELSE <<>>
    ELSE IF fc.flag_nonmatching THEN <<StoreCmd("+FLAGS", "\\FLAGGED")>>
         ELSE <<>>

\* update_msg flagging what does not match whatever flag_nonmatching says
update_msg_always_flag(fc, matched, flagged) ==
    IF matched
    THEN IF fc.delete_matching THEN <<StoreCmd("+FLAGS", "\\DELETED")>>
         ELSE <<>>
    ELSE <<StoreCmd("+FLAGS", "\\FLAGGED")>>

\* the store commands update_msg issues for one message
update_msg(fc, matched, flagged) ==
    IF matched
    THEN IF fc.delete_matching THEN <<StoreCmd("+FLAGS", "\\DELETED")>>
         ELSE IF flagged /\ fc.flag_nonmatching
              THEN <<StoreCmd("-FLAGS", "\\FLAGGED")>>
              ELSE <<>>
    ELSE IF fc.flag_nonmatching THEN <<StoreCmd("+FLAGS", "\\FLAGGED")>>
         ELSE <<>>

RECURSIVE ApplyStores(_, _, _)
ApplyStores(box, uid, cmds) ==
    IF cmds = <<>> THEN box
    ELSE ApplyStores(Store(box, uid, Head(cmds).sign, Head(cmds).flag),
                     uid, Tail(cmds))

RECURSIVE StoreEvents(_, _)
StoreEvents(uid, cmds) ==
    IF cmds = <<>> THEN <<>>
    ELSE <<Ev("store", uid, Head(cmds).sign \o " " \o Head(cmds).flag)>>
         \o StoreEvents(uid, Tail(cmds))

\* ----------------------------------------------------------- attach_mail
\* an attachment of a parsed message is a tuple, modelled by its length;
\* tuples with fewer than two elements are skipped
WellFormed(att) == att >= 2

\* the ir.attachment rows attach_mail creates for the message
NewAttachments(fc, srv, match_object, msg) ==
    IF srv.attach /\ msg.attachments # <<>>
    THEN LET kept == SelectSeq(msg.attachments, WellFormed)
         IN [i \in 1..Len(kept) |->
                [res_model |-> fc.model, res_id |-> match_object]]
    ELSE <<>>

\* the database after the attachments are created and before the message is
AttachPartial(db, fc, srv, match_object, msg) ==
    [db EXCEPT !.ir_attachment = @ \o NewAttachments(fc, srv, match_object, msg)]

\* attach_mail(match_object, mail_message)
attach_mail(db, fc, srv, match_object, msg) ==
    LET atts == NewAttachments(fc, srv, match_object, msg)
        first == Len(db.ir_attachment)
    IN [mail_message |-> Append(db.mail_message,
            [message_id |-> msg.message_id,
             model |-> fc.model,
             res_id |-> match_object,
             message_type |-> "email",
             attachment_ids |-> {first + i : i \in 1..Len(atts)}]),
        ir_attachment |-> db.ir_attachment \o atts]

\* match_algorithm.handle_match(connection, match_object, folder, mail_message,
\* message_org, msgid): attaches the mail to the matched record and returns
\* the id the post-match action runs on
handle_match(db, fc, srv, match_object, msg) ==
    [db |-> attach_mail(db, fc, srv, match_object, msg),
     thread_id |-> match_object]

\* ----------------------------------------------------- run_server_action
\* run_server_action(matched_object_ids): the contexts the folder's server
\* action runs with, one for each record of browse(matched_object_ids) that
\* exists
run_server_action(fc, matched_object_ids) ==
    IF ~fc.action_id THEN <<>>
    ELSE IF matched_object_ids \notin Records THEN <<>>
    ELSE <<[active_id |-> matched_object_ids,
            active_ids |-> {matched_object_ids},
            active_model |-> fc.model]>>

RECURSIVE ActionEvents(_)
ActionEvents(runs) ==
    IF runs = <<>> THEN <<>>
    ELSE <<Ev("action", Head(runs).active_id, Head(runs).active_model)>>
         \o ActionEvents(Tail(runs))

\* -------------------------------------------------------- apply_matching
\* places where the environment may raise inside one apply_matching call
Faults == {"none", "fetch", "parse", "search", "attach", "action", "store"}

\* the result of one apply_matching call: whether it raised, how the message
\* ended, the value of matched if it was decided, the database and the
\* mailbox it leaves (before any rollback) and the calls it made, in order
Out(raised, outcome, matched, db, box, trace) ==
    [raised |-> raised, outcome |-> outcome, matched |-> matched, db |-> db,
     box |-> box, trace |-> trace]

\* the matched branch: handle_match, run_server_action, update_msg
ApplyMatched(fc, srv, db, box, uid, fault, t1) ==
    LET msg == box[uid]
        winner == Winner(search_matches(fc, msg))
        t2 == Append(t1, Ev("handle_match", winner, ""))
    IN  IF fault = "attach"
        THEN Out(TRUE, "failed", "yes", AttachPartial(db, fc, srv, winner, msg),
                 box, t2)
        ELSE
        LET handled == handle_match(db, fc, srv, winner, msg)
            runs == run_server_action(fc, handled.thread_id)
            t3 == t2 \o ActionEvents(runs)
            stores == update_msg(fc, TRUE, FALSE)
            t4 == Append(t3, Ev("update_msg", uid, "matched"))
        IN  IF fault = "action" /\ runs # <<>>
            THEN Out(TRUE, "failed", "yes", handled.db, box, t2)
            ELSE IF fault = "store" /\ stores # <<>>
            THEN Out(TRUE, "failed", "yes", handled.db, box, t4)
            ELSE Out(FALSE, "matched", "yes", handled.db,
                     ApplyStores(box, uid, stores),
                     t4 \o StoreEvents(uid, stores))

\* the unmatched branch: update_msg only
ApplyUnmatched(fc, db, box, uid, fault, t1) ==
    LET stores == update_msg(fc, FALSE, FALSE)
        t4 == Append(t1, Ev("update_msg", uid, "unmatched"))
    IN  IF fault = "store" /\ stores # <<>>
        THEN Out(TRUE, "failed", "no", db, box, t4)
        ELSE Out(FALSE, "unmatched", "no", db, ApplyStores(box, uid, stores),
                 t4 \o StoreEvents(uid, stores))

\* apply_matching after the dedup check found nothing: search_matches, the
\* decision, and one of the two branches
ApplyChecked(fc, srv, db, box, uid, fault, t0) ==
    LET t1 == Append(t0, Ev("search_matches", uid, ""))
    IN  IF fault = "search"
        THEN Out(TRUE, "failed", "undecided", db, box, t1)
        ELSE IF Matched(search_matches(fc, box[uid]), fc.match_first)
        THEN ApplyMatched(fc, srv, db, box, uid, fault, t1)
        ELSE ApplyUnmatched(fc, db, box, uid, fault, t1)

\* a handled mail that goes through update_msg as one that did not match
ApplyHandledUpdate(fc, db, box, uid, t0) ==
    LET stores == update_msg(fc, FALSE, FALSE)
    IN  Out(FALSE, "skipped", "undecided", db, ApplyStores(box, uid, stores),
            Append(t0, Ev("update_msg", uid, "unmatched"))
                \o StoreEvents(uid, stores))

\* the mail has been handled already: return
ApplyHandled(fc, db, box, uid, t0) ==
    Out(FALSE, "skipped", "undecided", db, box, t0)

\* apply_matching(connection, msgid, match_algorithm) on mailbox box
apply_matching(fc, srv, db, box, uid, fault) ==
    LET msg == box[uid]
        t0 == <<Ev("fetch", uid, "(RFC822)")>>
    IN  IF fault = "fetch" THEN Out(TRUE, "failed", "undecided", db, box, t0)
        ELSE
        LET box1 == FetchRFC822(box, uid)
        IN  IF fault = "parse"
            THEN Out(TRUE, "failed", "undecided", db, box1, t0)
            ELSE IF AlreadyHandled(db, msg.message_id)
            THEN ApplyHandled(fc, db, box1, uid, t0)
            ELSE ApplyChecked(fc, srv, db, box1, uid, fault, t0)

\* ------------------------------------------------- exception boundaries
\* an except clause that keeps what the failed message wrote
MessageExceptNoRollback(saved, partial, rest) ==
    [db |-> partial, msgids |-> rest]

\* retrieve_imap_folder, except Exception: roll back to the savepoint, log,
\* and go on with the next message
MessageExcept(saved, partial, rest) ==
    [db |-> saved, msgids |-> rest]

\* an except clause that raises again
FolderExceptReraise(rest_folders, rest_servers) ==
    [escaped |-> TRUE, folders |-> <<>>, servers |-> <<>>]

\* fetch_mail of the folders, except Exception: log, and go on with the next
\* folder; nothing escapes to the caller
FolderExcept(rest_folders, rest_servers) ==
    [escaped |-> FALSE, folders |-> rest_folders, servers |-> rest_servers]

\* a guard that does not look at the state
GuardActiveOnly(fc) == fc.active

\* the guard of fetch_mail: not this.active or this.state != "done" -> skip
Guard(fc) == fc.active /\ fc.state = "done"

\* this.server_id.connect(): a new connection object on every call
Connect(n) == n + 1

\* a session end whose logout is not in a finally clause
SessionEndNoFinally(completed, opened) ==
    IF completed THEN <<"close", "logout">> ELSE <<>>

\* the calls of normal completion and of the finally clause on the connection
\* (completed: retrieve_imap_folder returned; opened: connect returned)
SessionEnd(completed, opened) ==
    (IF completed THEN <<"close">> ELSE <<>>)
    \o (IF opened THEN <<"logout">> ELSE <<>>)

\* ------------------------------------------------------------------ state
VARIABLES
    server,        \* fetchmail.server: folders_only, attach
    folder,        \* fetchmail.server.folder: the configuration of each folder
    mailbox,       \* per folder path, the messages on the IMAP server
    db,            \* mail.message and ir.attachment
    pc,            \* position of the driver: idle, servers, folders, scan
    servers_todo,  \* servers the driver has still to visit
    folders_todo,  \* folders of the current server still to visit
    msgids,        \* ids of the current scan still to apply
    connection,    \* the connection of the current folder session, 0 = None
    nconn,         \* connections opened so far
    opened,        \* history: the connection opened by each connect, in order
    connlog,       \* history: calls on connections in the last folder session
    visited,       \* history: what the current invocation went through
    session,       \* history: the current scan, its candidates and outcomes
    last,          \* history: the last apply_matching call
    runs,          \* invocations started
    nfaults,       \* exceptions raised so far
    escaped,       \* an exception left fetch_mail
    failed,        \* history: the messages whose apply_matching raised
    last_internal_date, \* date policy: the cursor of the folder, <<>> = unset
    dbox,          \* date policy: the messages of the folder on the server
    dret,          \* date policy: history, the last get_msgids call
    clock,         \* date policy: the time of the process, in ticks
    pass,          \* date policy: the current handle_folder call and history
    cret,          \* confirmation: history, the last button or set_draft call
    worker         \* concurrent invocations: the position of each of them

vars == <<server, folder, mailbox, db, pc, servers_todo, folders_todo, msgids,
          connection, nconn, opened, connlog, visited, session, last, runs,
          nfaults, escaped, failed, last_internal_date, dbox, dret, clock,
          pass, cret, worker>>

\* the state of the date policy
dvars == <<last_internal_date, dbox, dret, clock, pass>>

\* the state of the folder gateway
gvars == <<server, folder, mailbox, db, pc, servers_todo, folders_todo, msgids,
           connection, nconn, opened, connlog, visited, session, last, runs,
           nfaults, escaped, failed>>

config == <<server, folder>>

\* ----------------------------------------------------------- recordsets
RECURSIVE SortBySequence(_)
RECURSIVE SortById(_)
\* the folders of set fs by id, whatever their sequence
SortById(fs) ==
    IF fs = {} THEN <<>>
    ELSE LET f == CHOOSE x \in fs : \A y \in fs : x <= y
         IN <<f>> \o SortById(fs \ {f})

\* the folders of set fs in _order = "sequence" (ties by id)
SortBySequence(fs) ==
    IF fs = {} THEN <<>>
    ELSE LET f == CHOOSE x \in fs : \A y \in fs :
                    \/ folder[x].sequence < folder[y].sequence
                    \/ folder[x].sequence = folder[y].sequence /\ x <= y
         IN <<f>> \o SortBySequence(fs \ {f})

\* this.folder_ids
folder_ids(s) == SortBySequence({f \in Folders : folder[f].server_id = s})

RECURSIVE ById(_)
ById(S) ==
    IF S = {} THEN <<>>
    ELSE LET m == CHOOSE x \in S : \A y \in S : x <= y
         IN <<m>> \o ById(S \ {m})

NoSession == [folder |-> 0, conn |-> 0, candidates |-> <<>>, scanned |-> <<>>,
              status |-> "none", completed |-> FALSE]

NoApply == [folder |-> 0, uid |-> 0, message_id |-> 0, raised |-> FALSE,
            outcome |-> "none", matched |-> "undecided", trace |-> <<>>, matches |-> <<>>,
            db_before |-> EmptyDb, db_partial |-> EmptyDb, db_after |-> EmptyDb,
            box_before |-> <<>>, box_after |-> <<>>]

Visit(kind, id, result) == [kind |-> kind, id |-> id, result |-> result]

ConnEv(ev, conn) == [ev |-> ev, conn |-> conn]

\* ------------------------------------------------------------------- Init
Message(mid, matches, attachments, flagged) ==
    [message_id |-> mid, matches |-> matches, attachments |-> attachments,
     seen |-> FALSE, deleted |-> FALSE, flagged |-> flagged]

\* results of search_matches
MatchLists == {<<>>, <<1>>, <<2, 1>>}

\* attachment lists of a parsed message (tuple lengths)
AttachmentLists == {<<>>, <<2, 1, 3>>}

FolderConfig(s, seq, active, state, model, first, delete, flag, action) ==
    [server_id |-> s, sequence |-> seq, active |-> active, state |-> state,
     model |-> model, match_first |-> first, delete_matching |-> delete,
     flag_nonmatching |-> flag, action_id |-> action]

\* the defaults of a new folder
DefaultFolder(s, seq) ==
    FolderConfig(s, seq, TRUE, "draft", "res.partner", FALSE, FALSE, TRUE, FALSE)

SeqsUpTo(S, lo, hi) == UNION {[1..n -> S] : n \in lo..hi}

InitControl ==
    /\ pc = "idle"
    /\ servers_todo = <<>>
    /\ folders_todo = <<>>
    /\ msgids = <<>>
    /\ connection = 0
    /\ nconn = 0
    /\ opened = <<>>
    /\ connlog = <<>>
    /\ visited = <<>>
    /\ session = NoSession
    /\ last = NoApply
    /\ runs = 0
    /\ nfaults = 0
    /\ escaped = FALSE
    /\ failed = {}

\* a mail.message another model recorded for Message-Id 1
Foreign ==
    [EmptyDb EXCEPT !.mail_message =
        <<[message_id |-> 1, model |-> "sale.order", res_id |-> 2,
           message_type |-> "email", attachment_ids |-> {}]>>]

\* one confirmed folder with one message: every configuration of the folder
\* and every kind of message
InitOneMessage ==
    /\ \E a \in BOOLEAN :
        server = [s \in Servers |-> [folders_only |-> TRUE, attach |-> a]]
    /\ \E first, delete, flag, action \in BOOLEAN :
        folder = [f \in Folders |->
            IF f = 1
            THEN FolderConfig(1, 1, TRUE, "done", "res.partner",
                              first, delete, flag, action)
            ELSE DefaultFolder(1, 2)]
    /\ \E ms \in MatchLists, as \in AttachmentLists, fl \in BOOLEAN :
        mailbox = [f \in Folders |->
            IF f = 1 THEN <<Message(1, ms, as, fl)>> ELSE <<>>]
    /\ db = EmptyDb

\* one confirmed folder with one message whose Message-Id another model has
\* recorded already
InitRecorded ==
    /\ server = [s \in Servers |-> [folders_only |-> TRUE, attach |-> TRUE]]
    /\ \E first, delete, flag, action \in BOOLEAN :
        folder = [f \in Folders |->
            IF f = 1
            THEN FolderConfig(1, 1, TRUE, "done", "res.partner",
                              first, delete, flag, action)
            ELSE DefaultFolder(1, 2)]
    /\ \E mid \in Mids, ms \in MatchLists :
        mailbox = [f \in Folders |->
            IF f = 1 THEN <<Message(mid, ms, <<2>>, FALSE)>> ELSE <<>>]
    /\ db = Foreign

\* one confirmed folder with several messages that have candidates, possibly
\* carrying the same Message-Id
InitSeveralMessages ==
    /\ server = [s \in Servers |-> [folders_only |-> TRUE, attach |-> TRUE]]
    /\ \E b \in BOOLEAN :
        folder = [f \in Folders |->
            IF f = 1
            THEN FolderConfig(1, 1, TRUE, "done", "sale.order", b, b, ~b, b)
            ELSE DefaultFolder(1, 2)]
    /\ \E box \in SeqsUpTo([mid : Mids, ms : MatchLists \ {<<>>}], 2, MaxMsgs) :
        mailbox = [f \in Folders |->
            IF f = 1
            THEN [i \in DOMAIN box |->
                    Message(box[i].mid, box[i].ms, <<2>>, FALSE)]
            ELSE <<>>]
    /\ db = EmptyDb

\* several servers and folders, confirmed or not, active or not, each folder
\* holding the same message
InitSeveralFolders ==
    /\ \E fo \in [Servers -> BOOLEAN] :
        server = [s \in Servers |-> [folders_only |-> fo[s], attach |-> FALSE]]
    /\ \E sv \in [Folders -> Servers], sq \in {<<1, 2>>, <<2, 1>>},
          ac \in [Folders -> BOOLEAN], st \in [Folders -> {"draft", "done"}] :
        folder = [f \in Folders |->
            [DefaultFolder(sv[f], sq[f]) EXCEPT !.active = ac[f],
                                                !.state = st[f]]]
    /\ mailbox = [f \in Folders |-> <<Message(1, <<1>>, <<>>, FALSE)>>]
    /\ db = EmptyDb

\* no handle_folder call of the date policy yet
NoPass == [status |-> "none", todo |-> <<>>, processed |-> <<>>, n |-> 0,
           cursor_before |-> <<>>, now |-> 0, written |-> <<>>]

\* no button_confirm_folder or set_draft call yet
NoCall == [op |-> "none", ids |-> <<>>, reached |-> <<>>, raised |-> "none",
           selects |-> <<>>, calls |-> <<>>, before |-> <<>>]

\* no concurrent invocation
NoWorkers == <<>>

\* no get_msgids call of the date policy yet
NoReturn == [status |-> "none", result |-> "", shape |-> "", msgids |-> <<>>,
             cursor |-> <<>>, since |-> <<>>, box |-> <<>>]

Init ==
    /\ InitControl
    /\ \/ InitOneMessage
       \/ InitRecorded
       \/ InitSeveralMessages
       \/ InitSeveralFolders
    /\ last_internal_date = <<>>
    /\ dbox = <<>>
    /\ dret = NoReturn
    /\ clock = 0
    /\ pass = NoPass
    /\ cret = NoCall
    /\ worker = NoWorkers

\* ---------------------------------------------------------------- driver
\* the scheduler calls FetchmailServer.fetch_mail on the servers
StartFetchMail ==
    /\ pc = "idle"
    /\ runs < MaxRuns
    /\ ~escaped
    /\ pc' = "servers"
    /\ servers_todo' = ById(Servers)
    /\ runs' = runs + 1
    /\ visited' = <<>>
    /\ connlog' = <<>>
    /\ session' = NoSession
    /\ last' = NoApply
    /\ UNCHANGED <<dvars, cret, worker, failed, config, mailbox, db, folders_todo, msgids, connection,
                   nconn, opened, nfaults, escaped>>

\* an inbox that is fetched whatever the server says
RunsInboxAlways(srv) == TRUE

\* if not this.folders_only: super().fetch_mail()
RunsInbox(srv) == ~srv.folders_only

\* FetchmailServer.fetch_mail, one server: the inbox unless folders_only,
\* then the folders of the server
ServerFetchMail ==
    /\ pc = "servers"
    /\ servers_todo # <<>>
    /\ LET s == Head(servers_todo)
       IN /\ visited' = IF RunsInbox(server[s])
                        THEN Append(visited, Visit("inbox", s, "done"))
                        ELSE visited
          /\ folders_todo' = folder_ids(s)
    /\ servers_todo' = Tail(servers_todo)
    /\ pc' = "folders"
    /\ UNCHANGED <<dvars, cret, worker, failed, config, mailbox, db, msgids, connection, nconn, opened,
                   connlog, session, last, runs, nfaults, escaped>>

\* folder_ids.fetch_mail() returned for the current server
FoldersDone ==
    /\ pc = "folders"
    /\ folders_todo = <<>>
    /\ pc' = "servers"
    /\ UNCHANGED <<dvars, cret, worker, failed, config, mailbox, db, servers_todo, folders_todo, msgids,
                   connection, nconn, opened, connlog, visited, session, last,
                   runs, nfaults, escaped>>

\* fetch_mail returned
EndFetchMail ==
    /\ pc = "servers"
    /\ servers_todo = <<>>
    /\ pc' = "idle"
    /\ UNCHANGED <<dvars, cret, worker, failed, config, mailbox, db, servers_todo, folders_todo, msgids,
                   connection, nconn, opened, connlog, visited, session, last,
                   runs, nfaults, escaped>>

\* --------------------------------------------------------- folder session
\* the folder is inactive or not confirmed: continue
FolderSkip ==
    /\ pc = "folders"
    /\ folders_todo # <<>>
    /\ ~Guard(folder[Head(folders_todo)])
    /\ visited' = Append(visited, Visit("folder", Head(folders_todo), "skipped"))
    /\ folders_todo' = Tail(folders_todo)
    /\ UNCHANGED <<dvars, cret, worker, failed, config, mailbox, db, pc, servers_todo, msgids, connection,
                   nconn, opened, connlog, session, last, runs, nfaults,
                   escaped>>

\* places where opening a folder session may raise
OpenFaults == {"none", "connect", "select", "search", "algorithm"}

\* the calls made on the connection up to the place of the exception
OpenCalls(sfault) ==
    IF sfault = "connect" THEN <<>>
    ELSE IF sfault = "select" THEN <<"connect", "select">>
    ELSE <<"connect", "select", "search">>

ConnEvents(calls, c) == [i \in DOMAIN calls |-> ConnEv(calls[i], c)]

\* the calls of an apply_matching trace that go to the connection
ConnectionCalls(trace) ==
    LET onconn == SelectSeq(trace, LAMBDA e : e.ev \in {"fetch", "store"})
    IN [i \in DOMAIN onconn |-> onconn[i].ev]

\* the session failed: except Exception, finally logout
FolderFailed(f, c, calls) ==
    LET h == FolderExcept(Tail(folders_todo), servers_todo)
    IN  /\ connlog' = ConnEvents(calls, c)
        /\ visited' = Append(visited, Visit("folder", f, "failed"))
        /\ folders_todo' = h.folders
        /\ servers_todo' = h.servers
        /\ escaped' = h.escaped
        /\ pc' = IF h.escaped THEN "idle" ELSE "folders"
        /\ connection' = 0
        /\ msgids' = <<>>
        /\ nfaults' = nfaults + 1

\* fetch_mail, one folder: connect, then retrieve_imap_folder up to its loop
\* (get_msgids: select and search; get_algorithm)
FolderOpen ==
    /\ pc = "folders"
    /\ folders_todo # <<>>
    /\ Guard(folder[Head(folders_todo)])
    /\ \E sfault \in OpenFaults :
        LET f == Head(folders_todo)
            c == Connect(nconn)
            isopen == sfault # "connect"
        IN  /\ sfault # "none" => nfaults < MaxFaults
            /\ nconn' = IF isopen THEN nconn + 1 ELSE nconn
            /\ opened' = IF isopen
                         THEN Append(opened, [conn |-> c, folder |-> f,
                                              active |-> folder[f].active,
                                              state |-> folder[f].state])
                         ELSE opened
            /\ last' = NoApply
            /\ IF sfault = "none"
               THEN /\ connection' = c
                    /\ connlog' = ConnEvents(OpenCalls(sfault), c)
                    /\ msgids' = SearchUnseenUndeleted(mailbox[f])
                    /\ session' = [folder |-> f, conn |-> c,
                                   candidates |-> SearchUnseenUndeleted(mailbox[f]),
                                   scanned |-> <<>>, status |-> "scanning",
                                   completed |-> FALSE]
                    /\ pc' = "scan"
                    /\ UNCHANGED <<visited, folders_todo, servers_todo,
                                   nfaults, escaped>>
               ELSE /\ FolderFailed(f, c,
                            OpenCalls(sfault) \o SessionEnd(FALSE, isopen))
                    /\ session' = [folder |-> f,
                                   conn |-> IF isopen THEN c ELSE 0,
                                   candidates |-> <<>>, scanned |-> <<>>,
                                   status |-> "failed", completed |-> FALSE]
    /\ UNCHANGED <<dvars, cret, worker, failed, config, mailbox, db, runs>>

\* retrieve_imap_folder, one message: savepoint, apply_matching, release, or
\* on an exception rollback to the savepoint; track says whether the history
\* of the failed messages is kept
ApplyStep(track) ==
    /\ pc = "scan"
    /\ msgids # <<>>
    /\ \E fault \in Faults :
        LET f == session.folder
            uid == Head(msgids)
            r == apply_matching(folder[f], server[folder[f].server_id], db,
                                mailbox[f], uid, fault)
            h == MessageExcept(db, r.db, Tail(msgids))
        IN  /\ r.raised => nfaults < MaxFaults
            /\ fault # "none" => r.raised
            /\ mailbox' = [mailbox EXCEPT ![f] = r.box]
            /\ db' = IF r.raised THEN h.db ELSE r.db
            /\ msgids' = IF r.raised THEN h.msgids ELSE Tail(msgids)
            /\ nfaults' = IF r.raised THEN nfaults + 1 ELSE nfaults
            /\ failed' = IF track /\ r.raised
                         THEN failed \cup {[folder |-> f, uid |-> uid,
                                            run |-> runs]}
                         ELSE failed
            /\ connlog' = connlog \o ConnEvents(ConnectionCalls(r.trace),
                                                 connection)
            /\ session' = [session EXCEPT !.scanned =
                    Append(@, [uid |-> uid, outcome |-> r.outcome,
                               wrote |-> r.db # db])]
            /\ last' = [folder |-> f, uid |-> uid,
                        message_id |-> mailbox[f][uid].message_id,
                        raised |-> r.raised, outcome |-> r.outcome,
                        matched |-> r.matched, trace |-> r.trace,
                        matches |-> mailbox[f][uid].matches,
                        db_before |-> db, db_partial |-> r.db,
                        db_after |-> IF r.raised THEN h.db ELSE r.db,
                        box_before |-> mailbox[f], box_after |-> r.box]
    /\ UNCHANGED <<dvars, cret, worker, config, pc, servers_todo, folders_todo,
                   connection, nconn, opened, visited, runs, escaped>>

ApplyMessage == ApplyStep(FALSE)

\* the loop of retrieve_imap_folder is over: close, and in the finally
\* clause logout
FolderClose ==
    /\ pc = "scan"
    /\ msgids = <<>>
    /\ \E cfault \in {"none", "close"} :
        LET f == session.folder
            calls == ConnEvents(SessionEnd(TRUE, TRUE), connection)
        IN  /\ cfault # "none" => nfaults < MaxFaults
            /\ IF cfault = "none"
               THEN /\ connlog' = connlog \o calls
                    /\ visited' = Append(visited, Visit("folder", f, "done"))
                    /\ folders_todo' = Tail(folders_todo)
                    /\ pc' = "folders"
                    /\ connection' = 0
                    /\ UNCHANGED <<servers_todo, msgids, nfaults, escaped>>
               ELSE LET h == FolderExcept(Tail(folders_todo), servers_todo)
                    IN  /\ connlog' = connlog \o calls
                        /\ visited' = Append(visited, Visit("folder", f, "failed"))
                        /\ folders_todo' = h.folders
                        /\ servers_todo' = h.servers
                        /\ escaped' = h.escaped
                        /\ pc' = IF h.escaped THEN "idle" ELSE "folders"
                        /\ connection' = 0
                        /\ nfaults' = nfaults + 1
                        /\ UNCHANGED msgids
            /\ session' = [session EXCEPT
                    !.status = IF cfault = "none" THEN "done" ELSE "failed",
                    !.completed = TRUE]
    /\ UNCHANGED <<dvars, cret, worker, failed, config, mailbox, db, nconn, opened, last, runs>>

\* ------------------------------------------------------------ environment
\* a mail client marks a message of a folder as unread between two runs
MarkUnread ==
    /\ pc = "idle"
    /\ runs < MaxRuns
    /\ \E f \in Folders : \E uid \in DOMAIN mailbox[f] :
        /\ mailbox[f][uid].seen
        /\ mailbox' = [mailbox EXCEPT ![f][uid].seen = FALSE]
    /\ UNCHANGED <<dvars, cret, worker, failed, config, db, pc, servers_todo, folders_todo, msgids,
                   connection, nconn, opened, connlog, visited, session, last,
                   runs, nfaults, escaped>>

Next ==
    \/ StartFetchMail
    \/ ServerFetchMail
    \/ FoldersDone
    \/ EndFetchMail
    \/ FolderSkip
    \/ FolderOpen
    \/ ApplyMessage
    \/ FolderClose
    \/ MarkUnread

Spec == Init /\ [][Next]_vars

\* ------------------------------------------------- the gateway, run again
\* The gateway over one folder with one message, with the history of the
\* messages whose apply_matching raised.
ApplyMessageTracked == ApplyStep(TRUE)

InitRetry ==
    /\ InitControl
    /\ InitOneMessage
    /\ last_internal_date = <<>>
    /\ dbox = <<>>
    /\ dret = NoReturn
    /\ clock = 0
    /\ pass = NoPass
    /\ cret = NoCall
    /\ worker = NoWorkers

NextRetry ==
    \/ StartFetchMail
    \/ ServerFetchMail
    \/ FoldersDone
    \/ EndFetchMail
    \/ FolderSkip
    \/ FolderOpen
    \/ ApplyMessageTracked
    \/ FolderClose
    \/ MarkUnread

SpecRetry == InitRetry /\ [][NextRetry]_vars

\* ------------------------------------------------------------ date policy
\* fetchmail_attach_from_folder_bydate: time is counted in ticks, DayLen
\* ticks a day; a message carries the instant the server received it (utc)
\* and the zone the server reports its INTERNALDATE in.
DayLen == 2
\* the last instant of the model
MaxTime == 4
\* messages in the mailbox of the date policy
MaxDateMsgs == 2

Zones == {-1, 0, 1}

Day(t) == t \div DayLen

\* the INTERNALDATE item the server sends for a message: date-time and zone
Internaldate(m) == [wall |-> m.utc + m.zone, zone |-> m.zone]

\* last_internal_date.strftime("%d-%b-%Y"): the day of the cursor
StrftimeDay(t) == Day(t)

\* session.search(None, "SINCE", date): the ids of the messages whose
\* internal date, disregarding time and timezone, is on or after the date
RECURSIVE SearchSinceFrom(_, _, _)
SearchSinceFrom(box, date, i) ==
    IF i > Len(box) THEN <<>>
    ELSE IF Day(Internaldate(box[i]).wall) >= date
         THEN <<i>> \o SearchSinceFrom(box, date, i + 1)
         ELSE SearchSinceFrom(box, date, i + 1)

SearchSince(box, date) == SearchSinceFrom(box, date, 1)

\* session.search(None, "UNDELETED")
RECURSIVE SearchUndeletedFrom(_, _)
SearchUndeletedFrom(box, i) ==
    IF i > Len(box) THEN <<>>
    ELSE IF ~box[i].deleted THEN <<i>> \o SearchUndeletedFrom(box, i + 1)
         ELSE SearchUndeletedFrom(box, i + 1)

SearchUndeleted(box) == SearchUndeletedFrom(box, 1)

\* datetime.fromtimestamp(time.mktime(imaplib.Internaldate2tuple(date))): the
\* instant of the INTERNALDATE item, as a naive datetime of the process,
\* which runs in UTC like the stored cursor
InternaldateMsg(d) == d.wall - d.zone

\* a comparison that also keeps the instant of the cursor
NewerOrEqual(internaldate_msg, cursor) == internaldate_msg >= cursor

\* if internaldate_msg > last_internal_date
Newer(internaldate_msg, cursor) == internaldate_msg > cursor

\* the loop of get_msgids over the ids of the SINCE result
RECURSIVE KeepNewer(_, _, _)
KeepNewer(box, uids, cursor) ==
    IF uids = <<>> THEN <<>>
    ELSE IF Newer(InternaldateMsg(Internaldate(box[Head(uids)])), cursor)
         THEN <<Head(uids)>> \o KeepNewer(box, Tail(uids), cursor)
         ELSE KeepNewer(box, Tail(uids), cursor)

\* places where get_msgids may raise: the set_trace of the debugger, a SINCE
\* search that is not OK, a fetch of INTERNALDATE that fails
DateFaults == {"none", "set_trace", "search", "fetch"}

\* get_msgids taking an unset cursor for the first instant
get_msgids_no_backfill(cursor, box, fault) ==
    LET c == IF cursor = <<>> THEN 0 ELSE cursor[1]
        uids == SearchSince(box, StrftimeDay(c))
    IN  IF fault # "none"
        THEN [NoReturn EXCEPT !.status = "raised", !.cursor = cursor,
                              !.box = box]
        ELSE [status |-> "returned", result |-> "OK", shape |-> "list",
              msgids |-> KeepNewer(box, uids, c),
              cursor |-> cursor, since |-> uids, box |-> box]

\* get_msgids(connection) of the date policy
get_msgids(cursor, box, fault) ==
    IF fault = "set_trace"
    THEN [NoReturn EXCEPT !.status = "raised", !.cursor = cursor, !.box = box]
    ELSE IF cursor # <<>>
    THEN LET uids == SearchSince(box, StrftimeDay(cursor[1]))
         IN IF fault = "search" \/ (fault = "fetch" /\ uids # <<>>)
            THEN [NoReturn EXCEPT !.status = "raised", !.cursor = cursor,
                                  !.box = box]
            ELSE [status |-> "returned", result |-> "OK", shape |-> "list",
                  msgids |-> KeepNewer(box, uids, cursor[1]),
                  cursor |-> cursor, since |-> uids, box |-> box]
    ELSE [status |-> "returned",
          result |-> IF fault = "search" THEN "NO" ELSE "OK",
          shape |-> "joined",
          msgids |-> IF fault = "search" THEN <<>> ELSE SearchUndeleted(box),
          cursor |-> cursor, since |-> <<>>, box |-> box]

DateMessages == [utc : 0..MaxTime, zone : Zones, deleted : BOOLEAN]

InitDate ==
    /\ InitControl
    /\ server = [s \in Servers |-> [folders_only |-> TRUE, attach |-> FALSE]]
    /\ folder = [f \in Folders |-> DefaultFolder(1, f)]
    /\ mailbox = [f \in Folders |-> <<>>]
    /\ db = EmptyDb
    /\ last_internal_date \in {<<>>} \cup {<<t>> : t \in 0..MaxTime}
    /\ dbox \in SeqsUpTo(DateMessages, 0, MaxDateMsgs)
    /\ dret = NoReturn
    /\ clock = 0
    /\ pass = NoPass
    /\ cret = NoCall
    /\ worker = NoWorkers

\* one call of get_msgids for the folder
DateGetMsgids ==
    /\ dret.status = "none"
    /\ \E fault \in DateFaults :
        dret' = get_msgids(last_internal_date, dbox, fault)
    /\ UNCHANGED <<gvars, last_internal_date, dbox, clock, pass, cret, worker>>

NextDate ==
    \/ DateGetMsgids

SpecDate == InitDate /\ [][NextDate]_vars

\* ------------------------------------------------ date policy: the pass
\* handle_folder(connection, folder) of the date policy: the pass of the
\* inherited handle_folder over the folder (select, get_msgids, one
\* apply_matching for each candidate), then the write of the cursor.

\* the greatest instant of the messages of a pass, the cursor if there is none
RECURSIVE MaxInternaldate(_, _, _)
MaxInternaldate(box, processed, least) ==
    IF processed = <<>> THEN least
    ELSE LET t == box[Head(processed).uid].utc
         IN MaxInternaldate(box, Tail(processed),
                            IF least = <<>> \/ t > least[1] THEN <<t>>
                            ELSE least)

\* a cursor set to the greatest instant of the messages of the pass
CursorMaxInternaldate(cursor, now, box, processed) ==
    MaxInternaldate(box, processed, cursor)

\* folder.last_internal_date = fields.Datetime.now(), once the inherited
\* handle_folder has returned
CursorAfterPass(cursor, now, box, processed) == <<now>>

\* a cursor written in a finally clause
CursorAfterRaiseFinally(cursor, now) == <<now>>

\* the inherited handle_folder raised: the assignment is not reached
CursorAfterRaise(cursor, now) == cursor

\* places where the pass may raise before its loop: the select of the folder
\* and the places of get_msgids
PassFaults == DateFaults \cup {"select"}

\* mailboxes of the passes: messages received at the first instant, at the
\* second and at the last
PassMessages == [utc : {0, 1, MaxTime}, zone : {0}, deleted : {FALSE}]

InitPass ==
    /\ InitControl
    /\ server = [s \in Servers |-> [folders_only |-> TRUE, attach |-> FALSE]]
    /\ folder = [f \in Folders |-> DefaultFolder(1, f)]
    /\ mailbox = [f \in Folders |-> <<>>]
    /\ db = EmptyDb
    /\ last_internal_date \in {<<>>} \cup {<<t>> : t \in 0..MaxTime}
    /\ dbox \in SeqsUpTo(PassMessages, 0, MaxDateMsgs)
    /\ dret = NoReturn
    /\ clock = 0
    /\ pass = NoPass
    /\ cret = NoCall
    /\ worker = NoWorkers

\* handle_folder is called: the folder is selected and get_msgids gives the
\* candidates
PassSelect ==
    /\ pass.status \in {"none", "returned", "raised"}
    /\ pass.n < MaxRuns
    /\ \E fault \in PassFaults :
        LET r == IF fault = "select" THEN dret
                 ELSE get_msgids(last_internal_date, dbox, fault)
            raises == fault = "select" \/ r.status = "raised"
                      \/ r.result # "OK"
            started == [pass EXCEPT !.n = @ + 1, !.processed = <<>>,
                                    !.cursor_before = last_internal_date]
        IN  /\ fault # "none" => raises
            /\ raises => nfaults < MaxFaults
            /\ dret' = r
            /\ IF raises
               THEN /\ pass' = [started EXCEPT !.status = "raised",
                                               !.todo = <<>>, !.now = clock]
                    /\ last_internal_date'
                        = CursorAfterRaise(last_internal_date, clock)
                    /\ nfaults' = nfaults + 1
               ELSE /\ pass' = [started EXCEPT !.status = "processing",
                                               !.todo = r.msgids]
                    /\ UNCHANGED <<last_internal_date, nfaults>>
    /\ UNCHANGED <<server, folder, mailbox, db, pc, servers_todo, folders_todo,
                   msgids, connection, nconn, opened, connlog, visited,
                   session, last, runs, escaped, failed, dbox, clock, cret,
                   worker>>

\* the loop of the pass, one candidate: it is applied, or it fails and is
\* rolled back, or the pass itself raises
PassApply ==
    /\ pass.status = "processing"
    /\ pass.todo # <<>>
    /\ \E outcome \in {"done", "failed", "raise"} :
        LET entry == [uid |-> Head(pass.todo), outcome |-> outcome]
        IN  /\ outcome # "done" => nfaults < MaxFaults
            /\ IF outcome = "raise"
               THEN /\ pass' = [pass EXCEPT !.status = "raised",
                                            !.todo = <<>>, !.now = clock]
                    /\ last_internal_date'
                        = CursorAfterRaise(last_internal_date, clock)
                    /\ nfaults' = nfaults + 1
               ELSE /\ pass' = [pass EXCEPT !.todo = Tail(@),
                                            !.processed = Append(@, entry)]
                    /\ nfaults' = IF outcome = "failed" THEN nfaults + 1
                                  ELSE nfaults
                    /\ UNCHANGED last_internal_date
    /\ UNCHANGED <<server, folder, mailbox, db, pc, servers_todo, folders_todo,
                   msgids, connection, nconn, opened, connlog, visited,
                   session, last, runs, escaped, failed, dbox, dret, clock,
                   cret, worker>>

\* the inherited handle_folder has returned: the cursor is set to now
PassReturn ==
    /\ pass.status = "processing"
    /\ pass.todo = <<>>
    /\ last_internal_date'
        = CursorAfterPass(last_internal_date, clock, dbox, pass.processed)
    /\ pass' = [pass EXCEPT !.status = "returned", !.now = clock,
                            !.written = Append(@, last_internal_date')]
    /\ UNCHANGED <<gvars, dbox, dret, clock, cret, worker>>

\* time passes
Tick ==
    /\ clock < MaxTime
    /\ clock' = clock + 1
    /\ UNCHANGED <<gvars, last_internal_date, dbox, dret, pass, cret, worker>>

NextPass ==
    \/ PassSelect
    \/ PassApply
    \/ PassReturn
    \/ Tick

SpecPass == InitPass /\ [][NextPass]_vars

\* ----------------------------------------------------------- confirmation
\* button_confirm_folder and set_draft of fetchmail.server.folder, called on
\* a recordset of folders. The server answers the calls of one folder in one
\* of these ways: the path is selected ("OK"), the path is not selected
\* ("NO"), or connect, the first select or close raises.
ConfirmOutcomes == {"OK", "NO", "connect", "select", "close"}

\* a test that takes every answer for OK
SelectOkAlways(status) == TRUE

\* connection.select(this.path)[0] != "OK" -> raise ValidationError
SelectOk(status) == status = "OK"

\* what a call leaves: the folders, the exception that ended it, the folders
\* its loop reached, the answers to select(path) and the calls on connections
Left(fs, raised, reached, selects, calls) ==
    [folder |-> fs, raised |-> raised, reached |-> reached,
     selects |-> selects, calls |-> calls]

RECURSIVE button_confirm_folder(_, _, _, _)
\* button_confirm_folder on the folders ids, in order; acc carries what the
\* loop has done so far
button_confirm_folder(fs, ids, env, acc) ==
    IF ids = <<>>
    THEN Left(fs, "none", acc.reached, acc.selects, acc.calls)
    ELSE
    LET this == Head(ids)
        drafted == [fs EXCEPT ![this].state = "draft"]
        reached == Append(acc.reached, this)
        c == Connect(acc.n)
        status == IF env[this] = "NO" THEN "NO" ELSE "OK"
        selects == Append(acc.selects, [folder |-> this, status |-> status])
        Calls(names) == acc.calls \o ConnEvents(names, c)
    IN  IF ~fs[this].active
        THEN button_confirm_folder(drafted, Tail(ids), env,
                                   [acc EXCEPT !.reached = reached])
        ELSE IF env[this] = "connect"
        THEN Left(drafted, "error", reached, acc.selects, acc.calls)
        ELSE IF env[this] = "select"
        THEN Left(drafted, "error", reached, acc.selects,
                  Calls(<<"connect", "select">>))
        ELSE IF ~SelectOk(status)
        THEN Left(drafted, "ValidationError", reached, selects,
                  Calls(<<"connect", "select", "select">>))
        ELSE IF env[this] = "close"
        THEN Left(drafted, "error", reached, selects,
                  Calls(<<"connect", "select", "select", "close">>))
        ELSE button_confirm_folder(
                [drafted EXCEPT ![this].state = "done"], Tail(ids), env,
                [reached |-> reached, selects |-> selects, n |-> c,
                 calls |-> Calls(<<"connect", "select", "select", "close">>)])

\* set_draft on the folders ids: self.write({"state": "draft"})
set_draft(fs, ids) ==
    [f \in DOMAIN fs |->
        IF f \in Range(ids) THEN [fs[f] EXCEPT !.state = "draft"] ELSE fs[f]]

\* recordsets of folders, in _order
Recordsets == {SortBySequence(S) : S \in SUBSET Folders \ {{}}}

InitConfirm ==
    /\ InitControl
    /\ server = [s \in Servers |-> [folders_only |-> TRUE, attach |-> FALSE]]
    /\ \E sq \in {<<1, 2>>, <<2, 1>>}, ac \in [Folders -> BOOLEAN],
          st \in [Folders -> {"draft", "done"}] :
        folder = [f \in Folders |->
            [DefaultFolder(1, sq[f]) EXCEPT !.active = ac[f],
                                            !.state = st[f]]]
    /\ mailbox = [f \in Folders |-> <<>>]
    /\ db = EmptyDb
    /\ last_internal_date = <<>>
    /\ dbox = <<>>
    /\ dret = NoReturn
    /\ clock = 0
    /\ pass = NoPass
    /\ cret = NoCall
    /\ worker = NoWorkers

\* one call of button_confirm_folder
ButtonConfirmFolder ==
    /\ \E ids \in Recordsets, env \in [Folders -> ConfirmOutcomes] :
        LET r == button_confirm_folder(folder, ids, env,
                    [reached |-> <<>>, selects |-> <<>>, n |-> 0,
                     calls |-> <<>>])
        IN  /\ folder' = r.folder
            /\ cret' = [op |-> "button_confirm_folder", ids |-> ids,
                        reached |-> r.reached, raised |-> r.raised,
                        selects |-> r.selects, calls |-> r.calls,
                        before |-> folder]
    /\ UNCHANGED <<dvars, worker, server, mailbox, db, pc, servers_todo,
                   folders_todo, msgids, connection, nconn, opened, connlog,
                   visited, session, last, runs, nfaults, escaped, failed>>

\* one call of set_draft
SetDraft ==
    /\ \E ids \in Recordsets :
        /\ folder' = set_draft(folder, ids)
        /\ cret' = [NoCall EXCEPT !.op = "set_draft", !.ids = ids,
                                  !.reached = ids, !.before = folder]
    /\ UNCHANGED <<dvars, worker, server, mailbox, db, pc, servers_todo,
                   folders_todo, msgids, connection, nconn, opened, connlog,
                   visited, session, last, runs, nfaults, escaped, failed>>

NextConfirm ==
    \/ ButtonConfirmFolder
    \/ SetDraft

SpecConfirm == InitConfirm /\ [][NextConfirm]_vars

\* --------------------------------------------------------- folder listing
\* _compute_folders_available of fetchmail.server, called on a recordset of
\* servers, next to button_confirm_folder: the two places outside a folder
\* scan that open a connection. The IMAP server answers the calls of one
\* record in one of these ways: LIST answers OK with well-formed entries
\* ("OK"), LIST answers another status ("NO"), an entry of the answer does
\* not match list_response_pattern ("parse"), or connect, list or logout
\* raises.
ListOutcomes == {"OK", "NO", "parse", "connect", "list", "logout"}

\* state of fetchmail.server
ServerStates == {"draft", "done"}

\* one line of a LIST answer: (flags) "delimiter" name; a line the pattern
\* does not match has no groups
ListEntry(name, wellformed) ==
    [flags |-> "\\HasNoChildren", delimiter |-> "/", mailbox_name |-> name,
     wellformed |-> wellformed]

\* connection.list(): status and entries
ListResult(outcome) ==
    IF outcome = "NO" THEN <<"NO", <<>>>>
    ELSE IF outcome = "parse"
    THEN <<"OK", <<ListEntry(1, TRUE), ListEntry(2, FALSE)>>>>
    ELSE <<"OK", <<ListEntry(1, TRUE), ListEntry(2, TRUE)>>>>

\* parse_list_response(line)[2] of every entry; match() of a malformed line
\* is None and .groups() raises
ParseListResponses(entries) ==
    IF \E i \in DOMAIN entries : ~entries[i].wellformed
    THEN [raised |-> TRUE, names |-> <<>>]
    ELSE [raised |-> FALSE,
          names |-> [i \in DOMAIN entries |-> entries[i].mailbox_name]]

\* what the computation leaves: folders_available of the records it wrote,
\* the exception that ended it, the records its loop reached and the calls
\* on connections
Listed(value, raised, reached, calls) ==
    [value |-> value, raised |-> raised, reached |-> reached,
     calls |-> calls]

RECURSIVE compute_folders_available(_, _, _, _)
\* _compute_folders_available on the servers ids, in order; state is the
\* state field of each server, acc carries what the loop has done so far
compute_folders_available(ids, state, env, acc) ==
    IF ids = <<>>
    THEN Listed(acc.value, "none", acc.reached, acc.calls)
    ELSE
    LET this == Head(ids)
        reached == Append(acc.reached, this)
        c == Connect(acc.n)
        list_result == ListResult(env[this])
        parsed == ParseListResponses(list_result[2])
        Value(v) == Append(acc.value, [server |-> this, value |-> v])
        Text(text) == Value([message |-> text, names |-> <<>>])
        Lines(names) == Value([message |-> "", names |-> names])
        Calls(names) == acc.calls \o ConnEvents(names, c)
    IN  IF state[this] # "done"
        THEN compute_folders_available(Tail(ids), state, env,
                [acc EXCEPT !.reached = reached,
                            !.value = Text("Confirm connection first.")])
        ELSE IF env[this] = "connect"
        THEN Listed(acc.value, "error", reached, acc.calls)
        ELSE IF env[this] = "list"
        THEN Listed(acc.value, "error", reached, Calls(<<"connect", "list">>))
        ELSE IF list_result[1] # "OK"
        THEN compute_folders_available(Tail(ids), state, env,
                [reached |-> reached, n |-> c,
                 value |-> Text("Unable to retrieve folders."),
                 calls |-> Calls(<<"connect", "list">>)])
        ELSE IF parsed.raised
        THEN Listed(acc.value, "error", reached, Calls(<<"connect", "list">>))
        ELSE IF env[this] = "logout"
        THEN Listed(Lines(parsed.names), "error", reached,
                    Calls(<<"connect", "list", "logout">>))
        ELSE compute_folders_available(Tail(ids), state, env,
                [reached |-> reached, n |-> c,
                 value |-> Lines(parsed.names),
                 calls |-> Calls(<<"connect", "list", "logout">>)])

\* recordsets of servers
ServerRecordsets == {<<1>>, <<2>>, <<1, 2>>, <<2, 1>>}

\* one computation of folders_available
ComputeFoldersAvailable ==
    /\ \E ids \in ServerRecordsets, state \in [Servers -> ServerStates],
          env \in [Servers -> ListOutcomes] :
        LET r == compute_folders_available(ids, state, env,
                    [reached |-> <<>>, value |-> <<>>, n |-> 0,
                     calls |-> <<>>])
        IN  cret' = [op |-> "_compute_folders_available", ids |-> ids,
                     reached |-> r.reached, raised |-> r.raised,
                     selects |-> <<>>, calls |-> r.calls,
                     before |-> folder, folders_available |-> r.value]
    /\ UNCHANGED <<dvars, worker, config, mailbox, db, pc, servers_todo,
                   folders_todo, msgids, connection, nconn, opened, connlog,
                   visited, session, last, runs, nfaults, escaped, failed>>

\* the calls that open a connection outside a folder scan
NextRelease ==
    \/ ButtonConfirmFolder
    \/ ComputeFoldersAvailable

SpecRelease == InitConfirm /\ [][NextRelease]_vars

\* ------------------------------------------------ concurrent invocations
\* The scheduler invokes the driver for each server on its own, at the same
\* time: one invocation per server, each with one confirmed folder (folder s
\* of server s). The invocations share the database; a statement of one of
\* them (the dedup search, the creates of attach_mail) may come between two
\* statements of another. A write is seen by the others at once.
IdleWorker == [pc |-> "idle", todo |-> <<>>, uid |-> 0]

InitConcurrent ==
    /\ InitControl
    /\ server = [s \in Servers |-> [folders_only |-> TRUE, attach |-> FALSE]]
    /\ \E md \in [Folders -> Models] :
        folder = [f \in Folders |->
            FolderConfig(f, 1, TRUE, "done", md[f], FALSE, FALSE, TRUE, FALSE)]
    /\ \E boxes \in [Folders -> SeqsUpTo(Mids, 1, MaxMsgs)] :
        mailbox = [f \in Folders |->
            [i \in DOMAIN boxes[f] |->
                Message(boxes[f][i], <<1>>, <<>>, FALSE)]]
    /\ db = EmptyDb
    /\ last_internal_date = <<>>
    /\ dbox = <<>>
    /\ dret = NoReturn
    /\ clock = 0
    /\ pass = NoPass
    /\ cret = NoCall
    /\ worker = [s \in Servers |-> IdleWorker]

\* fetch_mail of the folder of server s up to the loop of
\* retrieve_imap_folder: connect, select, search
WorkerOpen ==
    /\ \E s \in Servers :
        /\ worker[s].pc = "idle"
        /\ Guard(folder[s])
        /\ worker' = [worker EXCEPT ![s] =
                [pc |-> "scan", todo |-> SearchUnseenUndeleted(mailbox[s]),
                 uid |-> 0]]
    /\ UNCHANGED <<gvars, dvars, cret>>

\* apply_matching up to the dedup check: fetch_msg and the search on
\* mail.message; a mail handled already ends the call
WorkerCheck ==
    /\ \E s \in Servers :
        /\ worker[s].pc = "scan"
        /\ worker[s].todo # <<>>
        /\ LET uid == Head(worker[s].todo)
               msg == mailbox[s][uid]
           IN  /\ mailbox' = [mailbox EXCEPT ![s] = FetchRFC822(@, uid)]
               /\ worker' = [worker EXCEPT ![s] =
                    IF AlreadyHandled(db, msg.message_id)
                    THEN [@ EXCEPT !.todo = Tail(@)]
                    ELSE [@ EXCEPT !.pc = "checked", !.uid = uid,
                                   !.todo = Tail(@)]]
    /\ UNCHANGED <<dvars, cret, server, folder, db, pc, servers_todo,
                   folders_todo, msgids, connection, nconn, opened, connlog,
                   visited, session, last, runs, nfaults, escaped, failed>>

\* the rest of apply_matching: search_matches, handle_match, the action and
\* update_msg
WorkerApply ==
    /\ \E s \in Servers :
        /\ worker[s].pc = "checked"
        /\ LET r == ApplyChecked(folder[s], server[folder[s].server_id], db,
                                 mailbox[s], worker[s].uid, "none", <<>>)
           IN  /\ db' = r.db
               /\ mailbox' = [mailbox EXCEPT ![s] = r.box]
        /\ worker' = [worker EXCEPT ![s].pc = "scan"]
    /\ UNCHANGED <<dvars, cret, server, folder, pc, servers_todo,
                   folders_todo, msgids, connection, nconn, opened, connlog,
                   visited, session, last, runs, nfaults, escaped, failed>>

\* the loop is over: close and logout
WorkerClose ==
    /\ \E s \in Servers :
        /\ worker[s].pc = "scan"
        /\ worker[s].todo = <<>>
        /\ worker' = [worker EXCEPT ![s].pc = "done"]
    /\ UNCHANGED <<gvars, dvars, cret>>

NextConcurrent ==
    \/ WorkerOpen
    \/ WorkerCheck
    \/ WorkerApply
    \/ WorkerClose

SpecConcurrent == InitConcurrent /\ [][NextConcurrent]_vars

\* ------------------------------------------------------------- properties
\* the positions of the entries of a trace that are calls of ev
Positions(trace, ev) == {i \in DOMAIN trace : trace[i].ev = ev}

\* the mail.message rows that carry a Message-Id
Rows(d, mid) ==
    {i \in DOMAIN d.mail_message : d.mail_message[i].message_id = mid}

\* an apply_matching call has been made and recorded in last
Applied == last.outcome # "none"

\* the store calls of the last apply_matching call, in order
LastStores ==
    SelectSeq(last.trace, LAMBDA e : e.ev = "store")

\* C1: a Message-Id is recorded at most once: applying a message whose
\* Message-Id is recorded already creates no mail.message and no
\* ir.attachment, and a message that matched leaves exactly one mail.message
\* with its Message-Id.
C1_Idempotence ==
    /\ \A mid \in Mids : Cardinality(Rows(db, mid)) <= 1
    /\ Applied /\ Rows(last.db_before, last.message_id) # {}
        => /\ last.db_after = last.db_before
           /\ last.db_partial = last.db_before
    /\ Applied /\ last.outcome = "matched"
        => Cardinality(Rows(last.db_after, last.message_id)) = 1

\* C1 witness: a message that has a candidate is applied when the gateway has
\* recorded its Message-Id before, and is skipped
C1_Witness ==
    /\ last.outcome = "skipped"
    /\ last.matches # <<>>
    /\ \E i \in Rows(db, last.message_id) :
        /\ db.mail_message[i].model = folder[last.folder].model
        /\ db.mail_message[i].res_id \in Range(last.matches)
    /\ folder[last.folder].model = "sale.order"

\* C2: matched is decided true exactly when there is one candidate, or more
\* than one and match_first is set; deciding no match raises nothing.
C2_MatchedDecision ==
    /\ Applied /\ last.matched # "undecided"
        => (last.matched = "yes"
            <=> \/ Len(last.matches) = 1
                \/ Len(last.matches) > 1 /\ folder[last.folder].match_first)
    /\ Applied /\ last.matched = "no" /\ ~folder[last.folder].flag_nonmatching
        => ~last.raised /\ last.outcome = "unmatched"

\* C2 witness: several candidates without match_first are decided as no match
C2_Witness ==
    /\ last.matched = "no"
    /\ Len(last.matches) > 1
    /\ ~folder[last.folder].match_first
    /\ ~last.raised

\* C3: a message applied as matched had handle_match called once, with the
\* first candidate, and then the configured action run once on that record;
\* without a configured action no action ran.
C3_HandleAndAction ==
    /\ Applied => /\ Cardinality(Positions(last.trace, "handle_match")) <= 1
                  /\ Cardinality(Positions(last.trace, "action")) <= 1
    /\ Applied /\ last.outcome = "matched"
        => /\ \E i \in DOMAIN last.trace :
                /\ Positions(last.trace, "handle_match") = {i}
                /\ last.trace[i].id = last.matches[1]
                /\ \A j \in Positions(last.trace, "action") :
                    /\ j > i
                    /\ last.trace[j].id = last.matches[1]
           /\ Cardinality(Positions(last.trace, "action"))
                = IF folder[last.folder].action_id THEN 1 ELSE 0
           /\ \E r \in Rows(last.db_after, last.message_id) :
                last.db_after.mail_message[r].res_id = last.matches[1]

\* C3 witness: first match wins among several candidates and the action ran
C3_Witness ==
    /\ last.outcome = "matched"
    /\ Len(last.matches) > 1
    /\ last.matches[1] # last.matches[Len(last.matches)]
    /\ Positions(last.trace, "action") # {}

\* C4: a message decided as no match writes nothing to the database, has no
\* handle_match and no action, and gets +FLAGS \FLAGGED stored if
\* flag_nonmatching is set and nothing stored otherwise.
C4_NoMatch ==
    Applied /\ last.matched = "no"
        => /\ (\/ Len(last.matches) = 0
               \/ Len(last.matches) > 1 /\ ~folder[last.folder].match_first)
           /\ last.db_partial = last.db_before
           /\ last.db_after = last.db_before
           /\ Positions(last.trace, "handle_match") = {}
           /\ Positions(last.trace, "action") = {}
           /\ ~last.raised
                => LastStores =
                    IF folder[last.folder].flag_nonmatching
                    THEN <<Ev("store", last.uid, "+FLAGS \\FLAGGED")>>
                    ELSE <<>>
           /\ ~folder[last.folder].flag_nonmatching
                => /\ LastStores = <<>>
                   /\ last.box_after[last.uid].flagged
                        = last.box_before[last.uid].flagged
           /\ last.box_after[last.uid].deleted
                = last.box_before[last.uid].deleted

\* C4 witness: an unmatched message is applied with flag_nonmatching disabled
C4_Witness ==
    /\ last.outcome = "unmatched"
    /\ ~folder[last.folder].flag_nonmatching
    /\ ~last.box_after[last.uid].flagged

\* the ids applied so far in the current scan, in order
ScannedUids == [i \in DOMAIN session.scanned |-> session.scanned[i].uid]

\* C5: a message whose apply_matching raises loses its database writes and
\* nothing else: the scan goes on through every later candidate, and the
\* records of the messages applied before it in the scan stay.
C5_MessageIsolation ==
    /\ pc = "scan" => ScannedUids \o msgids = session.candidates
    /\ session.completed => ScannedUids = session.candidates
    /\ Applied /\ last.raised => last.db_after = last.db_before
    /\ session.status \in {"scanning", "done"}
        => \A i \in DOMAIN session.scanned :
            session.scanned[i].outcome = "matched"
                => Rows(db, mailbox[session.folder][session.scanned[i].uid]
                                .message_id) # {}

\* C5 witness: a message failed after it had written to the database, and a
\* later message of the same scan was applied and matched
C5_Witness ==
    /\ session.completed
    /\ \E i, j \in DOMAIN session.scanned :
        /\ i < j
        /\ session.scanned[i].outcome = "failed"
        /\ session.scanned[i].wrote
        /\ session.scanned[j].outcome = "matched"
    /\ Len(db.mail_message) = 1

\* the entries of visited for folder f
Visits(f) == {i \in DOMAIN visited : visited[i].kind = "folder" /\ visited[i].id = f}

ConnCalls == [i \in DOMAIN connlog |-> connlog[i].ev]

ConnPositions(ev) == {i \in DOMAIN connlog : connlog[i].ev = ev}

\* C7: a folder session opens one connection of its own; an opened connection
\* is logged out once, as the last call of the session, whether the scan
\* completed or raised; close is called only when the scan completed, right
\* before the logout.
C7_ConnectionLifecycle ==
    /\ \A i, j \in DOMAIN opened : i # j => opened[i].conn # opened[j].conn
    /\ Cardinality(ConnPositions("connect")) <= 1
    /\ \A i \in DOMAIN connlog : connlog[i].conn = session.conn
    /\ connlog # <<>> => connlog[1].ev = "connect" /\ session.conn # 0
    /\ session.status = "scanning"
        => /\ Cardinality(ConnPositions("connect")) = 1
           /\ ConnPositions("logout") = {}
           /\ ConnPositions("close") = {}
    /\ session.status \in {"done", "failed"}
        => /\ Cardinality(ConnPositions("logout"))
                = Cardinality(ConnPositions("connect"))
           /\ session.conn # 0 => ConnPositions("connect") = {1}
           /\ ConnPositions("logout") \subseteq {Len(connlog)}
           /\ ConnPositions("close")
                = IF session.completed THEN {Len(connlog) - 1} ELSE {}

\* C7 witness: a session that raised after its connection was opened
C7_Witness ==
    /\ session.status = "failed"
    /\ ~session.completed
    /\ ConnCalls = <<"connect", "select", "search", "logout">>

\* the head of folders_todo does not pass the guard
AtSkippedFolder ==
    /\ pc = "folders"
    /\ folders_todo # <<>>
    /\ ~(folder[Head(folders_todo)].active
         /\ folder[Head(folders_todo)].state = "done")

\* C8: a folder that is inactive or not confirmed gets no connection, no
\* fetch, no store and no record: the step over it changes none of these;
\* every connection was opened for an active, confirmed folder.
C8_FolderGuard ==
    /\ [][AtSkippedFolder
            => /\ nconn' = nconn
               /\ opened' = opened
               /\ connlog' = connlog
               /\ mailbox' = mailbox
               /\ db' = db
               /\ pc' = "folders"
               /\ folders_todo' = Tail(folders_todo)
               /\ visited' = Append(visited,
                    Visit("folder", Head(folders_todo), "skipped"))]_vars
    /\ [](\A i \in DOMAIN opened :
            opened[i].active /\ opened[i].state = "done")
    /\ [](\A i \in DOMAIN visited :
            visited[i].kind = "folder"
                => (visited[i].result = "skipped"
                    <=> ~(folder[visited[i].id].active
                          /\ folder[visited[i].id].state = "done")))

\* C8 witness: an active folder that is not confirmed was skipped with its
\* message left unseen, in an invocation that scanned another folder
C8_Witness ==
    /\ pc = "idle"
    /\ \E i, j \in DOMAIN visited :
        /\ visited[i].kind = "folder" /\ visited[i].result = "skipped"
        /\ folder[visited[i].id].active
        /\ \A u \in DOMAIN mailbox[visited[i].id] :
            ~mailbox[visited[i].id][u].seen
        /\ visited[j].kind = "folder" /\ visited[j].result = "done"

\* C9: for a message applied as matched, update_msg is called after
\* handle_match and the action; it stores +FLAGS \DELETED if delete_matching
\* is set and nothing otherwise, whatever flag_nonmatching says.
C9_UpdateOnMatch ==
    Applied /\ last.outcome = "matched"
        => /\ \E u \in DOMAIN last.trace :
                /\ Positions(last.trace, "update_msg") = {u}
                /\ \A i \in Positions(last.trace, "handle_match")
                        \cup Positions(last.trace, "action") : i < u
                /\ Positions(last.trace, "handle_match") # {}
                /\ \A i \in Positions(last.trace, "store") : i > u
           /\ LastStores =
                IF folder[last.folder].delete_matching
                THEN <<Ev("store", last.uid, "+FLAGS \\DELETED")>>
                ELSE <<>>
           /\ last.box_after[last.uid].flagged
                = last.box_before[last.uid].flagged
           /\ last.box_after[last.uid].deleted
                = (folder[last.folder].delete_matching
                   \/ last.box_before[last.uid].deleted)

\* C9 witness: a flagged message matched in a folder with delete_matching and
\* flag_nonmatching both set: it is deleted and its flag stays
C9_Witness ==
    /\ last.outcome = "matched"
    /\ folder[last.folder].delete_matching
    /\ folder[last.folder].flag_nonmatching
    /\ last.box_before[last.uid].flagged
    /\ last.box_after[last.uid].flagged
    /\ last.box_after[last.uid].deleted

\* C10: with a cursor, get_msgids returns the ids of the SINCE result whose
\* message was received strictly after the cursor, in the order of the SINCE
\* result, and no other id.
C10_DateCandidates ==
    dret.status = "returned" /\ dret.cursor # <<>>
        => /\ dret.msgids
                = SelectSeq(dret.since,
                            LAMBDA id : dret.box[id].utc > dret.cursor[1])
           /\ \A id \in DOMAIN dret.box :
                dret.box[id].utc <= dret.cursor[1] => id \notin Range(dret.msgids)

\* C10 witness: the SINCE result holds a message received at the instant of
\* the cursor, which is left out, and one received later whose INTERNALDATE
\* is reported in another zone, which is returned
C10_Witness ==
    /\ dret.status = "returned"
    /\ dret.cursor # <<>>
    /\ \E i, j \in Range(dret.since) :
        /\ dret.box[i].utc = dret.cursor[1]
        /\ i \notin Range(dret.msgids)
        /\ dret.box[j].utc > dret.cursor[1]
        /\ dret.box[j].zone # 0
        /\ j \in Range(dret.msgids)

\* the folder entries of visited, in order
FolderVisits == SelectSeq(visited, LAMBDA v : v.kind = "folder")

\* within a scan the candidates are applied one at a time in the order of the
\* search result, none of them twice
ScanInSearchOrder ==
    /\ \A i, j \in DOMAIN session.candidates :
            i # j => session.candidates[i] # session.candidates[j]
    /\ Len(ScannedUids) <= Len(session.candidates)
    /\ \A i \in DOMAIN ScannedUids : ScannedUids[i] = session.candidates[i]
    /\ pc = "scan"
        => msgids = SubSeq(session.candidates, Len(ScannedUids) + 1,
                           Len(session.candidates))
    /\ Applied /\ pc = "scan"
        => /\ ScannedUids # <<>>
           /\ last.uid = ScannedUids[Len(ScannedUids)]

\* C14 as stated: the candidates of a scan are applied in the order of the
\* search result, each at most once, and the folders of one invocation are
\* gone through in ascending sequence number.
C14_ProcessingOrder ==
    /\ ScanInSearchOrder
    /\ \A i, j \in DOMAIN FolderVisits :
            i < j => folder[FolderVisits[i].id].sequence
                        <= folder[FolderVisits[j].id].sequence

\* C14 amended: the candidates of a scan are applied in the order of the
\* search result, each at most once, and the folders of one server are gone
\* through in ascending sequence number; the folders of a server all come
\* before those of the next server of the invocation.
C14_OrderWithinServer ==
    /\ ScanInSearchOrder
    /\ \A i, j \in DOMAIN FolderVisits :
            i < j /\ folder[FolderVisits[i].id].server_id
                        = folder[FolderVisits[j].id].server_id
                => folder[FolderVisits[i].id].sequence
                        <= folder[FolderVisits[j].id].sequence
    /\ \A i, j, k \in DOMAIN FolderVisits :
            i < j /\ j < k /\ folder[FolderVisits[i].id].server_id
                                = folder[FolderVisits[k].id].server_id
                => folder[FolderVisits[j].id].server_id
                        = folder[FolderVisits[i].id].server_id

\* C14 witness: two folders of one server whose sequence numbers run against
\* their ids were gone through, the one with the lower sequence first, and
\* the scan of the second applied its candidate
C14_Witness ==
    /\ pc = "idle"
    /\ Len(FolderVisits) = 2
    /\ FolderVisits[1].id > FolderVisits[2].id
    /\ folder[FolderVisits[1].id].server_id
            = folder[FolderVisits[2].id].server_id
    /\ folder[FolderVisits[1].id].sequence
            < folder[FolderVisits[2].id].sequence
    /\ FolderVisits[1].result = "done"
    /\ FolderVisits[2].result = "done"
    /\ ScannedUids = <<1>>

\* the entries of visited for the inbox of server s
InboxVisits(s) ==
    {i \in DOMAIN visited : visited[i].kind = "inbox" /\ visited[i].id = s}

\* C15: the inbox of a server is fetched exactly when folders_only is not
\* set; the folders of the server are gone through in both cases, after the
\* inbox when it is fetched.
C15_GatewayDriver ==
    /\ \A s \in Servers :
        /\ Cardinality(InboxVisits(s)) <= 1
        /\ InboxVisits(s) # {} => ~server[s].folders_only
        /\ \A f \in Folders :
            folder[f].server_id = s /\ Visits(f) # {}
                => /\ ~server[s].folders_only => InboxVisits(s) # {}
                   /\ \A i \in InboxVisits(s), j \in Visits(f) : i < j
    /\ pc = "idle" /\ runs > 0
        => \A s \in Servers :
            /\ InboxVisits(s) # {} <=> ~server[s].folders_only
            /\ \A f \in Folders :
                folder[f].server_id = s => Cardinality(Visits(f)) = 1

\* C15 witness: an invocation over a server with folders_only, whose folder
\* was scanned without its inbox, and a server without it, whose inbox was
\* fetched before its folder was scanned
C15_Witness ==
    /\ pc = "idle"
    /\ \E s, t \in Servers, f, g \in Folders :
        /\ server[s].folders_only /\ ~server[t].folders_only
        /\ folder[f].server_id = s /\ folder[g].server_id = t
        /\ InboxVisits(s) = {}
        /\ \E i \in Visits(f) : visited[i].result = "done"
        /\ \E i \in InboxVisits(t), j \in Visits(g) :
            i < j /\ visited[j].result = "done"

\* the last apply_matching call got as far as the dedup check
ReachedDedup == Applied /\ ~(last.raised /\ Len(last.trace) = 1)

\* the mail.message rows of model m that carry a Message-Id
RowsOfModel(d, mid, m) ==
    {i \in Rows(d, mid) : d.mail_message[i].model = m}

\* C17 as stated: apply_matching ends at the dedup check exactly when a
\* mail.message of the folder's model carries the Message-Id; a mail.message
\* of another model with that Message-Id does not make it skip the message.
C17_DedupScope ==
    ReachedDedup
        => (last.outcome = "skipped"
            <=> RowsOfModel(last.db_before, last.message_id,
                            folder[last.folder].model) # {})

\* C17 amended: apply_matching ends at the dedup check exactly when a
\* mail.message carries the Message-Id, whatever the model of that
\* mail.message: one of another model makes it skip the message too.
C17_DedupAnyModel ==
    ReachedDedup
        => (last.outcome = "skipped"
            <=> Rows(last.db_before, last.message_id) # {})

\* C17 witness: a message with a candidate is skipped in a folder of
\* res.partner because a mail.message of sale.order carries its Message-Id
C17_Witness ==
    /\ last.outcome = "skipped"
    /\ last.matches # <<>>
    /\ Rows(last.db_before, last.message_id) # {}
    /\ RowsOfModel(last.db_before, last.message_id,
                   folder[last.folder].model) = {}

\* C18: a message skipped at the dedup check had the fetch of its source as
\* the only call: no search_matches, no handle_match, no action, no
\* update_msg and no store; the database and the \Flagged and \Deleted
\* flags of the mailbox are as before, and nothing was raised.
C18_DedupSkip ==
    Applied /\ last.outcome = "skipped"
        => /\ last.trace = <<Ev("fetch", last.uid, "(RFC822)")>>
           /\ LastStores = <<>>
           /\ ~last.raised
           /\ last.matched = "undecided"
           /\ last.db_partial = last.db_before
           /\ last.db_after = last.db_before
           /\ Rows(last.db_before, last.message_id) # {}
           /\ DOMAIN last.box_after = DOMAIN last.box_before
           /\ \A u \in DOMAIN last.box_before :
                /\ last.box_after[u].flagged = last.box_before[u].flagged
                /\ last.box_after[u].deleted = last.box_before[u].deleted
                /\ u # last.uid => last.box_after[u] = last.box_before[u]

\* C18 witness: a message without candidates is skipped in a folder that
\* flags what does not match, and stays unflagged
C18_Witness ==
    /\ last.outcome = "skipped"
    /\ last.matches = <<>>
    /\ folder[last.folder].flag_nonmatching
    /\ ~last.box_after[last.uid].flagged
    /\ db = last.db_before

\* C19 as stated: a message whose apply_matching raised in an earlier
\* invocation and that is not deleted is among the candidates of the next
\* scan of its folder.
C19_RetryNextRun ==
    session.status = "scanning"
        => \A x \in failed :
            /\ x.folder = session.folder
            /\ x.run < runs
            /\ ~mailbox[x.folder][x.uid].deleted
            => x.uid \in Range(session.candidates)

\* the ids 1..n in order
Ids(n) == [i \in 1..n |-> i]

\* C13: without a cursor, get_msgids returns the ids of all messages that
\* are not deleted, in mailbox order, whatever their internal date: no SINCE
\* search is made and no id is filtered out.
C13_Backfill ==
    dret.status = "returned" /\ dret.cursor = <<>> /\ dret.result = "OK"
        => /\ dret.msgids
                = SelectSeq(Ids(Len(dret.box)),
                            LAMBDA id : ~dret.box[id].deleted)
           /\ dret.since = <<>>
           /\ \A id \in DOMAIN dret.box :
                id \in Range(dret.msgids) <=> ~dret.box[id].deleted

\* C13 witness: without a cursor, a mailbox with a deleted message and a
\* message received at the first instant gives the latter and not the former
C13_Witness ==
    /\ dret.status = "returned"
    /\ dret.cursor = <<>>
    /\ dret.result = "OK"
    /\ Len(dret.box) = 2
    /\ dret.box[1].deleted
    /\ ~dret.box[2].deleted /\ dret.box[2].utc = 0
    /\ dret.msgids = <<2>>

\* C11: when handle_folder has returned, the cursor is the time of the
\* process at the end of that pass, whatever the instants of the messages of
\* the pass; the cursors written by successive passes never decrease.
C11_CursorAdvance ==
    /\ pass.status = "returned"
        => /\ last_internal_date = <<pass.now>>
           /\ pass.written # <<>>
           /\ pass.written[Len(pass.written)] = <<pass.now>>
    /\ \A i, j \in DOMAIN pass.written :
        i < j => pass.written[i][1] <= pass.written[j][1]

\* C11 witness: two passes returned at different times; the second went over
\* a message whose instant is later than the end of the pass
C11_Witness ==
    /\ pass.status = "returned"
    /\ Len(pass.written) = 2
    /\ pass.written[1][1] < pass.written[2][1]
    /\ last_internal_date = pass.written[2]
    /\ \E i \in DOMAIN pass.processed :
        dbox[pass.processed[i].uid].utc > pass.now

\* C12: the cursor is as it was at the start of the pass while the
\* candidates are selected and processed, and when the pass has raised; a
\* pass that returned is the only one that has written it.
C12_CursorFrame ==
    /\ pass.status \in {"processing", "raised"}
        => last_internal_date = pass.cursor_before
    /\ pass.status = "none" => pass.written = <<>>
    /\ Len(pass.written) <= pass.n
    /\ pass.status = "raised" => Len(pass.written) < pass.n

\* C12 witness: a pass raised after it had applied a candidate, at a time
\* that is not the cursor, and the cursor is the one of the start of the pass
C12_Witness ==
    /\ pass.status = "raised"
    /\ pass.processed # <<>>
    /\ pass.cursor_before # <<>>
    /\ pass.cursor_before # <<pass.now>>
    /\ last_internal_date = pass.cursor_before

\* the answers the last call got to select(path) for folder f
SelectAnswers(f) ==
    {cret.selects[i].status : i \in {j \in DOMAIN cret.selects :
                                        cret.selects[j].folder = f}}

\* C16: after button_confirm_folder a folder the call went over is confirmed
\* only if it is active and its path was selected with OK in that call; an
\* answer other than OK raises ValidationError and leaves the folder in
\* draft; an inactive folder is left in draft; after set_draft every folder
\* of the call is in draft.
C16_Confirmation ==
    /\ cret.op = "button_confirm_folder"
        => /\ \A f \in Range(cret.reached) :
                /\ folder[f].state = "done"
                    => folder[f].active /\ SelectAnswers(f) = {"OK"}
                /\ ~folder[f].active => folder[f].state = "draft"
                /\ SelectAnswers(f) \ {"OK"} # {}
                    => /\ cret.raised = "ValidationError"
                       /\ folder[f].state = "draft"
                       /\ cret.reached[Len(cret.reached)] = f
                /\ folder[f].active /\ SelectAnswers(f) = {"OK"}
                    /\ cret.raised = "none"
                    => folder[f].state = "done"
           /\ cret.raised = "ValidationError"
                => SelectAnswers(cret.reached[Len(cret.reached)]) = {"NO"}
           /\ cret.raised = "none" => cret.reached = cret.ids
           /\ \A f \in Folders \ Range(cret.reached) :
                folder[f] = cret.before[f]
    /\ cret.op = "set_draft"
        => /\ \A f \in Range(cret.ids) : folder[f].state = "draft"
           /\ \A f \in Folders \ Range(cret.ids) : folder[f] = cret.before[f]

\* C16 witness: one call confirmed an active folder that was in draft and
\* then raised ValidationError on a folder that was confirmed before, which
\* is in draft now
C16_Witness ==
    /\ cret.op = "button_confirm_folder"
    /\ cret.raised = "ValidationError"
    /\ Len(cret.reached) = 2
    /\ cret.before[cret.reached[1]].state = "draft"
    /\ folder[cret.reached[1]].state = "done"
    /\ cret.before[cret.reached[2]].state = "done"
    /\ folder[cret.reached[2]].state = "draft"

\* C20 as stated: whatever the interleaving of the dedup checks and the
\* attach steps of invocations for different servers, at most one
\* mail.message exists for a target model and a Message-Id.
C20_UniqueConcurrent ==
    \A m \in Models, mid \in Mids : Cardinality(RowsOfModel(db, mid, m)) <= 1

\* a connection of the call log is released: its connect is followed, before
\* the next connect, by a close or a logout on the same connection
Released(calls, i) ==
    \E j \in (i + 1)..Len(calls) :
        /\ calls[j].conn = calls[i].conn
        /\ calls[j].ev \in {"close", "logout"}
        /\ \A k \in (i + 1)..j : calls[k].ev # "connect"

\* C21 as stated: every connection opened by _compute_folders_available is
\* logged out before the computation moves to the next server, also when the
\* LIST answer is not OK, and every connection opened by
\* button_confirm_folder is closed or logged out before the call returns or
\* raises, also when the path is invalid.
C21_ConnectionsReleased ==
    cret.op \in {"_compute_folders_available", "button_confirm_folder"}
        => \A i \in DOMAIN cret.calls :
            cret.calls[i].ev = "connect" => Released(cret.calls, i)

====
